---- MODULE Spec2Model ----
(***************************************************************************)
(* cli-suite: the argument tokenizer (class Parser) and the command/option *)
(* dispatcher (class Program) of src/src/lib/input/parser.ts, with         *)
(* runValidators of src/unnamed/part_004.                                  *)
(*                                                                         *)
(* A JavaScript string is a sequence of one-character strings, so that     *)
(* startsWith, slice, indexOf, split and the name regex are computed on    *)
(* characters.  An option value (string | string[] | boolean) is a record  *)
(* [kind, val]: kind "flag" (boolean true), "single" (one string,          *)
(* val = <<s>>) or "multiple" (an array, val = the array).  The parser     *)
(* never stores boolean false; ValidatorInput still treats a kind "false"  *)
(* as the boolean it would be.                                             *)
(***************************************************************************)
EXTENDS Integers, Sequences, FiniteSets, TLC

VARIABLES
    \* ---- class Parser (parser.ts:19-223)
    args,            \* Parser.args: argv.slice(2)
    i,               \* the scan index of Parser.parse()
    phase,           \* position in Parser.parse(): "commands", "options", "done"
    parsedCommands,  \* Parser.parsedCommands
    parsedOptions,   \* Parser.parsedOptions: <<[key, value]>> in insertion order
    parsingErrors,   \* Parser.parsingErrors
    scan,            \* history: <<[idx, role]>>, how each scanned token was classified
    \* ---- class Program (parser.ts:240-408)
    options,         \* Program.options: Map key -> ArgOptions, <<[key, decl]>> in Map order
    commands,        \* Program.commands: Map name -> CommandOptions, <<[key, decl]>>
    pParsingErrors,  \* Program.parsingErrors
    unexpectedErrors,\* Program.unexpectedErrors
    validationErrors,\* Program.validationErrors: <<[key, value]>> in insertion order
    result,          \* parser.getResult() as read by the running Program.parse()
    entries,         \* Object.entries(options) of the running Program.parse()
    k,               \* index of the next entry of the for-of loop (0-based)
    processedOptions,\* processedOptions of the running Program.parse(): decl ids
    pc,              \* position in Program.parse()
    returned,        \* what the last Program.parse() resolved to, or "none"
    log,             \* history of the running cycle: validator runs and action calls
    before,          \* history: the three error collections when the running cycle began
    nextId,          \* identities of the next option and command declaration objects
    cycles           \* number of Program.parse() calls started

tokVars  == <<args, i, phase, parsedCommands, parsedOptions, parsingErrors, scan>>
progVars == <<options, commands, pParsingErrors, unexpectedErrors, validationErrors,
              result, entries, k, processedOptions, pc, returned, log, before, nextId,
              cycles>>
vars     == <<tokVars, progVars>>

----------------------------------------------------------------------------
(* Bounds *)

MaxArgs     == 3   \* tokens after the executable and the script
MaxOptions  == 2   \* calls of Program.option
MaxCommands == 1   \* calls of Program.command
MaxEntries  == 2   \* keys of the options map of a tokenize result
MaxCycles   == 1   \* calls of Program.parse
MaxRegOptions  == 3   \* calls of Program.option in a registration-only run
MaxRegCommands == 3   \* calls of Program.command in a registration-only run
MaxRunCycles   == 2   \* calls of Program.parse on one instance in a repeated run
MaxRunOptions  == 2   \* calls of Program.option in a repeated run
MaxRunEntries  == 2   \* keys of the options map in a repeated run

----------------------------------------------------------------------------
(* JavaScript strings and arrays *)

Lower  == {"a","b","c","d","e","f","g","h","i","j","k","l","m",
           "n","o","p","q","r","s","t","u","v","w","x","y","z"}
Upper  == {"A","B","C","D","E","F","G","H","I","J","K","L","M",
           "N","O","P","Q","R","S","T","U","V","W","X","Y","Z"}
Digits == {"0","1","2","3","4","5","6","7","8","9"}

\* s.startsWith(p)
StartsWith(s, p) == Len(s) >= Len(p) /\ SubSeq(s, 1, Len(p)) = p

\* s.slice(n), 0 <= n
Slice(s, n) == SubSeq(s, n + 1, Len(s))

\* s.indexOf(c) for a one-character c: 0-based, -1 when absent
IndexOf(s, c) ==
    IF \E p \in 1..Len(s) : s[p] = c
    THEN (CHOOSE p \in 1..Len(s) : s[p] = c /\ \A q \in 1..(p - 1) : s[q] # c) - 1
    ELSE -1

\* s.split(c)[0]: the part before the first c, the whole of s when there is none
SplitHead(s, c) == IF IndexOf(s, c) = -1 THEN s ELSE SubSeq(s, 1, IndexOf(s, c))

\* array.join(sep) of an array of strings
RECURSIVE Join(_, _)
Join(arr, sep) ==
    IF Len(arr) = 0 THEN <<>>
    ELSE IF Len(arr) = 1 THEN arr[1]
    ELSE arr[1] \o sep \o Join(Tail(arr), sep)

\* the option values: boolean true, one string, an array of strings
Flag        == [kind |-> "flag", val |-> <<>>]
Single(s)   == [kind |-> "single", val |-> <<s>>]
Multiple(a) == [kind |-> "multiple", val |-> a]

\* obj.hasOwnProperty(key) on a Record kept as <<[key, value]>>
HasKey(obj, key) == \E p \in 1..Len(obj) : obj[p].key = key

\* obj[key]
Get(obj, key) == obj[CHOOSE p \in 1..Len(obj) : obj[p].key = key].value

\* faulty variant of SetProp: an existing property keeps its value
SetPropKeepFirst(obj, key, value) ==
    IF HasKey(obj, key) THEN obj ELSE Append(obj, [key |-> key, value |-> value])

\* obj[key] = value: an existing property keeps its place, a new one is added last
SetProp(obj, key, value) ==
    IF HasKey(obj, key)
    THEN [p \in 1..Len(obj) |->
            IF obj[p].key = key THEN [key |-> key, value |-> value] ELSE obj[p]]
    ELSE Append(obj, [key |-> key, value |-> value])

----------------------------------------------------------------------------
(* class Parser *)

Dash == <<"-">>

\* Parser.isValidName: /^[a-z0-9][a-z0-9-_]*$/i
isValidName(input) ==
    /\ Len(input) >= 1
    /\ input[1] \in Lower \cup Upper \cup Digits
    /\ \A p \in 2..Len(input) : input[p] \in Lower \cup Upper \cup Digits \cup {"-", "_"}

\* the while loop of parseLongArg / parseShortArg: the index of the first token at or
\* after nextIndex that starts with '-', or args.length
RECURSIVE ValuesEnd(_, _)
ValuesEnd(as, nextIndex) ==
    IF nextIndex < Len(as) /\ ~StartsWith(as[nextIndex + 1], Dash)
    THEN ValuesEnd(as, nextIndex + 1)
    ELSE nextIndex

\* faulty variant of ValueOf: any collected values are stored as an array
ValueOfArray(values) == IF Len(values) = 0 THEN Flag ELSE Multiple(values)

\* values.length === 0 ? true : values.length === 1 ? values[0] : values
ValueOf(values) ==
    IF Len(values) = 0 THEN Flag
    ELSE IF Len(values) = 1 THEN Single(values[1])
    ELSE Multiple(values)

\* faulty variant of CollectInto: the returned index is not advanced past the values
CollectIntoNoAdvance(opts, as, key, currentIndex) ==
    LET nextIndex == ValuesEnd(as, currentIndex + 1)
        values    == SubSeq(as, currentIndex + 2, nextIndex)
    IN  [opts |-> SetProp(opts, key, ValueOf(values)), index |-> currentIndex]

\* faulty variant of CollectInto: the returned index is one past the last value, so the
\* scan skips the token after the values
CollectIntoSkipping(opts, as, key, currentIndex) ==
    LET nextIndex == ValuesEnd(as, currentIndex + 1)
        values    == SubSeq(as, currentIndex + 2, nextIndex)
    IN  [opts |-> SetProp(opts, key, ValueOf(values)), index |-> nextIndex]

\* the values collected from currentIndex + 1 on, stored under key
CollectInto(opts, as, key, currentIndex) ==
    LET nextIndex == ValuesEnd(as, currentIndex + 1)
        values    == SubSeq(as, currentIndex + 2, nextIndex)
    IN  [opts |-> SetProp(opts, key, ValueOf(values)), index |-> nextIndex - 1]

\* faulty variant of parseLongArg: an empty value after '=' is stored as true
parseLongArgEmptyTrue(opts, as, arg, currentIndex) ==
    LET argBody    == Slice(arg, 2)
        equalIndex == IndexOf(argBody, "=")
        value      == Slice(argBody, equalIndex + 1)
    IN  IF equalIndex # -1
        THEN [opts  |-> SetProp(opts, SubSeq(argBody, 1, equalIndex),
                                IF value = <<>> THEN Flag ELSE Single(value)),
              index |-> currentIndex]
        ELSE CollectInto(opts, as, argBody, currentIndex)

\* faulty variant of parseLongArg: the tokens after a --key=value token are skipped
\* as if they were its values
parseLongArgSkipping(opts, as, arg, currentIndex) ==
    LET argBody    == Slice(arg, 2)
        equalIndex == IndexOf(argBody, "=")
    IN  IF equalIndex # -1
        THEN [opts  |-> SetProp(opts, SubSeq(argBody, 1, equalIndex),
                                Single(Slice(argBody, equalIndex + 1))),
              index |-> ValuesEnd(as, currentIndex + 1) - 1]
        ELSE CollectInto(opts, as, argBody, currentIndex)

\* Parser.parseLongArg(arg, currentIndex): the new parsedOptions and the returned index
parseLongArg(opts, as, arg, currentIndex) ==
    LET argBody    == Slice(arg, 2)
        equalIndex == IndexOf(argBody, "=")
    IN  IF equalIndex # -1
        THEN [opts  |-> SetProp(opts, SubSeq(argBody, 1, equalIndex),
                                Single(Slice(argBody, equalIndex + 1))),
              index |-> currentIndex]
        ELSE CollectInto(opts, as, argBody, currentIndex)

\* faulty variant of SetFlags: the leading flags are not stored
SetFlagsNone(opts, flags, n) == opts

\* for (let i = 0; i < flags.length - 1; i++) this.parsedOptions[flags[i]] = true
RECURSIVE SetFlags(_, _, _)
SetFlags(opts, flags, n) ==
    IF n = 0 THEN opts
    ELSE SetProp(SetFlags(opts, flags, n - 1), <<flags[n]>>, Flag)

\* Parser.parseShortArg(arg, currentIndex)
parseShortArg(opts, as, arg, currentIndex) ==
    LET flags == Slice(arg, 1)
    IN  IF Len(flags) > 1
        THEN CollectInto(SetFlags(opts, flags, Len(flags) - 1), as,
                         <<flags[Len(flags)]>>, currentIndex)
        ELSE CollectInto(opts, as, flags, currentIndex)

\* the history entries of one scanned option token and the values it collected
Roles(from, to) ==
    [p \in 1..(to - from + 1) |->
        [idx |-> from + p - 1, role |-> IF p = 1 THEN "option" ELSE "value"]]

\* parser.ts:55-57, one iteration of the while loop
CollectCommand ==
    /\ phase = "commands"
    /\ i < Len(args) /\ ~StartsWith(args[i + 1], Dash)
    /\ parsedCommands' = Append(parsedCommands, args[i + 1])
    /\ scan' = Append(scan, [idx |-> i, role |-> "command"])
    /\ i' = i + 1
    /\ UNCHANGED <<args, phase, parsedOptions, parsingErrors, progVars>>

\* parser.ts:55, the while loop ends
EndCommands ==
    /\ phase = "commands"
    /\ ~(i < Len(args) /\ ~StartsWith(args[i + 1], Dash))
    /\ phase' = "options"
    /\ UNCHANGED <<args, i, parsedCommands, parsedOptions, parsingErrors, scan, progVars>>

\* parser.ts:61-65, a long option with a valid key
LongArg ==
    /\ phase = "options" /\ i < Len(args)
    /\ StartsWith(args[i + 1], <<"-", "-">>)
    /\ LET key == SplitHead(Slice(args[i + 1], 2), "=")
           r   == parseLongArg(parsedOptions, args, args[i + 1], i)
       IN  /\ Len(key) > 1 /\ isValidName(key)
           /\ parsedOptions' = r.opts
           /\ scan' = scan \o Roles(i, r.index)
           /\ i' = r.index + 1
    /\ UNCHANGED <<args, phase, parsedCommands, parsingErrors, progVars>>

\* faulty variant of LongError: only the part before '=' is reported
LongErrorKeyOnly ==
    /\ phase = "options" /\ i < Len(args)
    /\ StartsWith(args[i + 1], <<"-", "-">>)
    /\ LET key == SplitHead(Slice(args[i + 1], 2), "=")
       IN  /\ ~(Len(key) > 1 /\ isValidName(key))
           /\ parsingErrors' = Append(parsingErrors, <<"-", "-">> \o key)
    /\ scan' = Append(scan, [idx |-> i, role |-> "error"])
    /\ i' = i + 1
    /\ UNCHANGED <<args, phase, parsedCommands, parsedOptions, progVars>>

\* parser.ts:66-68, a long option with an invalid key
LongError ==
    /\ phase = "options" /\ i < Len(args)
    /\ StartsWith(args[i + 1], <<"-", "-">>)
    /\ LET key == SplitHead(Slice(args[i + 1], 2), "=")
       IN  ~(Len(key) > 1 /\ isValidName(key))
    /\ parsingErrors' = Append(parsingErrors, args[i + 1])
    /\ scan' = Append(scan, [idx |-> i, role |-> "error"])
    /\ i' = i + 1
    /\ UNCHANGED <<args, phase, parsedCommands, parsedOptions, progVars>>

\* parser.ts:73-75, a short option with valid flags
ShortArg ==
    /\ phase = "options" /\ i < Len(args)
    /\ ~StartsWith(args[i + 1], <<"-", "-">>)
    /\ StartsWith(args[i + 1], Dash)
    /\ Len(args[i + 1]) > 1 /\ isValidName(Slice(args[i + 1], 1))
    /\ LET r == parseShortArg(parsedOptions, args, args[i + 1], i)
       IN  /\ parsedOptions' = r.opts
           /\ scan' = scan \o Roles(i, r.index)
           /\ i' = r.index + 1
    /\ UNCHANGED <<args, phase, parsedCommands, parsingErrors, progVars>>

\* parser.ts:76-78, a short option with invalid flags
ShortError ==
    /\ phase = "options" /\ i < Len(args)
    /\ ~StartsWith(args[i + 1], <<"-", "-">>)
    /\ StartsWith(args[i + 1], Dash)
    /\ ~(Len(args[i + 1]) > 1 /\ isValidName(Slice(args[i + 1], 1)))
    /\ parsingErrors' = Append(parsingErrors, args[i + 1])
    /\ scan' = Append(scan, [idx |-> i, role |-> "error"])
    /\ i' = i + 1
    /\ UNCHANGED <<args, phase, parsedCommands, parsedOptions, progVars>>

\* faulty variant of BareError: a bare token of the option loop is taken as a command
BareAsCommand ==
    /\ phase = "options" /\ i < Len(args)
    /\ ~StartsWith(args[i + 1], Dash)
    /\ parsedCommands' = Append(parsedCommands, args[i + 1])
    /\ scan' = Append(scan, [idx |-> i, role |-> "command"])
    /\ i' = i + 1
    /\ UNCHANGED <<args, phase, parsingErrors, parsedOptions, progVars>>

\* parser.ts:83, a bare token in the option loop
BareError ==
    /\ phase = "options" /\ i < Len(args)
    /\ ~StartsWith(args[i + 1], Dash)
    /\ parsingErrors' = Append(parsingErrors, args[i + 1])
    /\ scan' = Append(scan, [idx |-> i, role |-> "error"])
    /\ i' = i + 1
    /\ UNCHANGED <<args, phase, parsedCommands, parsedOptions, progVars>>

\* parser.ts:60, the for loop ends
EndOptions ==
    /\ phase = "options" /\ ~(i < Len(args))
    /\ phase' = "done"
    /\ UNCHANGED <<args, i, parsedCommands, parsedOptions, parsingErrors, scan, progVars>>


\* the argument lists given to the constructor: process.argv, whose first two entries
\* are the executable and the script
Exe    == <<"n","o","d","e">>
Script == <<"s",".","j","s">>

Tokens ==
    { <<>>, <<"a">>, <<"b">>,
      <<"-","-","a","a">>, <<"-","-","a","a","=">>, <<"-","-","a","a","=","-","b">>,
      <<"-","-","a","a","=","b","=","a">>, <<"-","-","a">>, <<"-","-","a","=","b">>,
      <<"-","-","a","*","=","b">>, <<"-","-">>, <<"-","-","-","a">>,
      <<"-","-","1","0">>,
      <<"-","a">>, <<"-","b">>, <<"-","a","b">>, <<"-","a","a">>, <<"-","a","b","c">>, <<"-">>,
      <<"-","*">>, <<"-","a","-">>, <<"-","1">> }

Argvs == { <<Exe, Script>> \o t : t \in UNION { [1..n -> Tokens] : n \in 0..MaxArgs } }

ArgvSkip == 2

\* the Program of a tokenizer run: nothing registered, parse() never called
ProgIdle ==
    /\ options = <<>> /\ commands = <<>>
    /\ pParsingErrors = <<>> /\ unexpectedErrors = <<>> /\ validationErrors = <<>>
    /\ result = [commands |-> <<>>, options |-> <<>>, errors |-> <<>>]
    /\ entries = <<>> /\ k = 0 /\ processedOptions = <<>>
    /\ pc = "idle" /\ returned = "none" /\ log = <<>>
    /\ before = [parsingErrors |-> <<>>, unexpectedErrors |-> <<>>, validationErrors |-> <<>>]
    /\ nextId = [option |-> 1, command |-> 1] /\ cycles = 0

\* Parser.constructor, parser.ts:40-43 and the field initialisers 24-30
InitTok ==
    /\ \E argv \in Argvs : args = Slice(argv, ArgvSkip)
    /\ i = 0 /\ phase = "commands"
    /\ parsedCommands = <<>> /\ parsedOptions = <<>> /\ parsingErrors = <<>>
    /\ scan = <<>>
    /\ ProgIdle

NextTok ==
    \/ CollectCommand
    \/ EndCommands
    \/ LongArg
    \/ LongError
    \/ ShortArg
    \/ ShortError
    \/ BareError
    \/ EndOptions

SpecTok == InitTok /\ [][NextTok]_vars

\* Parser.getResult, parser.ts:216-222
getResult == [options |-> parsedOptions, commands |-> parsedCommands, errors |-> parsingErrors]


----------------------------------------------------------------------------
(* runValidators, src/unnamed/part_004 *)

\* what validator.validate(input) gives once awaited: true, false, or a throw / rejection
Outcomes == {"true", "false", "reject"}

\* runValidators(input, validators), the n-th validator (1-based) being the next to run and
\* outs[n] what its validate gives: [rejected, errors, ran], ran the validators invoked
RECURSIVE runFrom(_, _, _, _)
runFrom(validators, outs, n, errors) ==
    IF n > Len(validators) THEN [rejected |-> FALSE, errors |-> errors, ran |-> n - 1]
    ELSE IF outs[n] = "reject" THEN [rejected |-> TRUE, errors |-> errors, ran |-> n]
    ELSE IF outs[n] = "false" /\ validators[n].message # <<>>
         THEN runFrom(validators, outs, n + 1, Append(errors, validators[n].message))
         ELSE runFrom(validators, outs, n + 1, errors)

runValidators(validators, outs) == runFrom(validators, outs, 1, <<>>)

----------------------------------------------------------------------------
(* class Program *)

None    == [has |-> FALSE, val |-> <<>>]
Some(x) == [has |-> TRUE, val |-> x]

\* Map.prototype.get on a Map kept as <<[key, value]>>: None when the key is absent
MapGet(map, key) == IF HasKey(map, key) THEN Some(Get(map, key)) ELSE None

\* [...map.values()]
MapValues(map) == [p \in 1..Len(map) |-> map[p].value]

\* faulty variant of Includes: the membership test always answers no
IncludesNever(arr, x) == FALSE

\* array.includes(x)
Includes(arr, x) == \E p \in 1..Len(arr) : arr[p] = x

\* the value of a digit character
DigitVal(c) == CHOOSE d \in 0..9 : <<"0","1","2","3","4","5","6","7","8","9">>[d + 1] = c

\* x <= y for two digit strings of the same length
RECURSIVE LexLeq(_, _)
LexLeq(x, y) ==
    IF Len(x) = 0 THEN TRUE
    ELSE IF x[1] # y[1] THEN DigitVal(x[1]) < DigitVal(y[1])
    ELSE LexLeq(Tail(x), Tail(y))

\* x <= y for two numerals without leading zeros
NumLeq(x, y) == Len(x) < Len(y) \/ (Len(x) = Len(y) /\ LexLeq(x, y))

\* 2^32 - 2, the largest array index
MaxArrayIndex == <<"4","2","9","4","9","6","7","2","9","4">>

\* whether a property key is an integer index, which Object.entries lists first
IsIndexKey(key) ==
    /\ Len(key) >= 1
    /\ \A p \in 1..Len(key) : key[p] \in Digits
    /\ (Len(key) = 1 \/ key[1] # "0")
    /\ NumLeq(key, MaxArrayIndex)

\* the entries whose key is an integer index, in ascending numeric order
RECURSIVE SortIndexEntries(_)
SortIndexEntries(es) ==
    IF Len(es) = 0 THEN <<>>
    ELSE LET m == CHOOSE p \in 1..Len(es) :
                      \A q \in 1..Len(es) : NumLeq(es[p].key, es[q].key)
         IN  <<es[m]>> \o SortIndexEntries(SubSeq(es, 1, m - 1) \o SubSeq(es, m + 1, Len(es)))

IsIndexEntry(e)  == IsIndexKey(e.key)
NotIndexEntry(e) == ~IsIndexKey(e.key)

\* Object.entries(obj): integer-index keys ascending, then the other keys in insertion order
ObjectEntries(obj) ==
    SortIndexEntries(SelectSeq(obj, IsIndexEntry)) \o SelectSeq(obj, NotIndexEntry)

\* one entry of the history of a parse() cycle
Event(ev, decl, key, arg, n, out) ==
    [ev |-> ev, decl |-> decl, key |-> key, arg |-> arg, n |-> n, out |-> out]

\* typeof value === 'boolean' ? '' : value
ValidatorInput(value) == IF value.kind \in {"flag", "false"} THEN Single(<<>>) ELSE value

\* the validate calls of one runValidators run, in order
ValidateEvents(decl, key, value, outs, ran) ==
    [n \in 1..ran |-> Event("validate", decl.id, key, ValidatorInput(value), n, outs[n])]

\* Program.command, parser.ts:270-273
command(map, decl) == SetProp(map, decl.name, decl)

\* faulty variant of option: a declaration that loses one key to the new declaration
\* loses its other key as well
optionEvicting(map, decl) ==
    LET hit  == { map[p].value.id : p \in { p \in 1..Len(map) : map[p].key \in {decl.short, decl.long} } }
        kept == SelectSeq(map, LAMBDA e : e.value.id \notin hit)
        m1   == IF decl.short # <<>> THEN SetProp(kept, decl.short, decl) ELSE kept
    IN  IF decl.long # <<>> THEN SetProp(m1, decl.long, decl) ELSE m1

\* Program.option, parser.ts:282-286
option(map, decl) ==
    LET m1 == IF decl.short # <<>> THEN SetProp(map, decl.short, decl) ELSE map
    IN  IF decl.long # <<>> THEN SetProp(m1, decl.long, decl) ELSE m1

\* faulty variant of applyDefaults: only the short key is looked up in the options map
RECURSIVE applyDefaultsShortOnly(_, _, _, _)
applyDefaultsShortOnly(values, opts, processed, hist) ==
    IF Len(values) = 0 THEN [processed |-> processed, log |-> hist]
    ELSE LET o        == values[1]
             hasShort == o.short # <<>> /\ HasKey(opts, o.short)
         IN  IF ~hasShort /\ o.defaultValue.has /\ ~Includes(processed, o.id)
             THEN applyDefaultsShortOnly(Tail(values), opts, Append(processed, o.id),
                      Append(hist, Event("default", o.id, <<>>, Single(o.defaultValue.val), 0, "")))
             ELSE applyDefaultsShortOnly(Tail(values), opts, processed, hist)

\* faulty variant of applyDefaults: the default-value actions take place ahead of the
\* steps already taken
RECURSIVE applyDefaultsPrepending(_, _, _, _)
applyDefaultsPrepending(values, opts, processed, hist) ==
    IF Len(values) = 0 THEN [processed |-> processed, log |-> hist]
    ELSE LET o        == values[1]
             hasShort == o.short # <<>> /\ HasKey(opts, o.short)
             hasLong  == o.long # <<>> /\ HasKey(opts, o.long)
         IN  IF ~hasShort /\ ~hasLong /\ o.defaultValue.has /\ ~Includes(processed, o.id)
             THEN applyDefaultsPrepending(Tail(values), opts, Append(processed, o.id),
                      <<Event("default", o.id, <<>>, Single(o.defaultValue.val), 0, "")>> \o hist)
             ELSE applyDefaultsPrepending(Tail(values), opts, processed, hist)

\* parser.ts:349-358, the default-value loop over this.options.values(): the processed
\* declarations and the history after it
RECURSIVE applyDefaults(_, _, _, _)
applyDefaults(values, opts, processed, hist) ==
    IF Len(values) = 0 THEN [processed |-> processed, log |-> hist]
    ELSE LET o        == values[1]
             hasShort == o.short # <<>> /\ HasKey(opts, o.short)
             hasLong  == o.long # <<>> /\ HasKey(opts, o.long)
         IN  IF ~hasShort /\ ~hasLong /\ o.defaultValue.has /\ ~Includes(processed, o.id)
             THEN applyDefaults(Tail(values), opts, Append(processed, o.id),
                      Append(hist, Event("default", o.id, <<>>, Single(o.defaultValue.val), 0, "")))
             ELSE applyDefaults(Tail(values), opts, processed, hist)

\* Program.getRegisteredCommands, parser.ts:396-398
getRegisteredCommands == MapValues(commands)

\* [...new Set(values)]: the first occurrence of each value, in order
RECURSIVE Dedup(_)
Dedup(values) ==
    IF Len(values) = 0 THEN <<>>
    ELSE LET rest == Dedup(SubSeq(values, 1, Len(values) - 1))
             last == values[Len(values)]
         IN  IF Includes(rest, last) THEN rest ELSE Append(rest, last)

\* Program.getRegisteredOptions, parser.ts:405-407
getRegisteredOptions == Dedup(MapValues(options))


\* faulty variant of commandArgs: the selector is passed along with the rest
commandArgsAll(cmds) == cmds

\* commands.slice(1), parser.ts:313
commandArgs(cmds) == Tail(cmds)

\* faulty variant of setValidationError: the messages are joined with a space
setValidationErrorSpace(ve, key, errors) == SetProp(ve, key, Join(errors, <<" ">>))

\* this.validationErrors[key] = errors.join('\n'), parser.ts:339
setValidationError(ve, key, errors) == SetProp(ve, key, Join(errors, <<"\n">>))

\* faulty variant of hasValidationErrors: unexpected errors count as well
hasAnyErrors(ve) == Len(ve) > 0 \/ Len(unexpectedErrors) > 0

\* Object.keys(this.validationErrors).length > 0, parser.ts:361
hasValidationErrors(ve) == Len(ve) > 0

\* no Program.parse() is running; declarations are registered before the first parse()
Idle == pc \in {"idle", "resolved", "rejected"}

\* program.command(decl), parser.ts:270-273
RegisterCommand(names, maxCommands) ==
    /\ Idle /\ cycles = 0 /\ nextId.command <= maxCommands
    /\ \E name \in names :
          commands' = command(commands, [id |-> nextId.command, name |-> name])
    /\ nextId' = [nextId EXCEPT !.command = @ + 1]
    /\ UNCHANGED <<options, pParsingErrors, unexpectedErrors, validationErrors, result,
                   entries, k, processedOptions, pc, returned, log, cycles, before, tokVars>>

\* program.option(decl), parser.ts:282-286
RegisterOption(shapes, maxOptions) ==
    /\ Idle /\ cycles = 0 /\ nextId.option <= maxOptions
    /\ \E d \in shapes :
          options' = option(options,
                        [id |-> nextId.option, short |-> d.short, long |-> d.long,
                         validators |-> d.validators, defaultValue |-> d.defaultValue])
    /\ nextId' = [nextId EXCEPT !.option = @ + 1]
    /\ UNCHANGED <<commands, pParsingErrors, unexpectedErrors, validationErrors, result,
                   entries, k, processedOptions, pc, returned, log, cycles, before, tokVars>>

\* faulty variant of ParseBegin: every call starts from empty error lists
ParseBeginResetting(results, maxCycles) ==
    /\ Idle /\ cycles < maxCycles
    /\ \E r \in results :
          LET first == IF Len(r.commands) > 0 THEN MapGet(commands, r.commands[1]) ELSE None
          IN  /\ result' = r
              /\ pParsingErrors' = r.errors
              /\ IF ~first.has
                 THEN /\ unexpectedErrors' = <<Join(r.commands, <<" ">>)>>
                      /\ log' = <<>>
                 ELSE /\ unexpectedErrors' = <<>>
                      /\ log' = <<Event("command", first.val.id, first.val.name,
                                        Multiple(commandArgs(r.commands)), 0, "")>>
              /\ entries' = ObjectEntries(r.options)
    /\ before' = [parsingErrors |-> pParsingErrors, unexpectedErrors |-> unexpectedErrors,
                   validationErrors |-> validationErrors]
    /\ processedOptions' = <<>>
    /\ k' = 0
    /\ pc' = "options"
    /\ returned' = "none"
    /\ cycles' = cycles + 1
    /\ UNCHANGED <<options, commands, validationErrors, nextId, tokVars>>

\* Program.parse up to the option loop, parser.ts:301-317
ParseBegin(results, maxCycles) ==
    /\ Idle /\ cycles < maxCycles
    /\ \E r \in results :
          LET first == IF Len(r.commands) > 0 THEN MapGet(commands, r.commands[1]) ELSE None
          IN  /\ result' = r
              /\ pParsingErrors' = pParsingErrors \o r.errors
              /\ IF ~first.has
                 THEN /\ unexpectedErrors' = Append(unexpectedErrors, Join(r.commands, <<" ">>))
                      /\ log' = <<>>
                 ELSE /\ unexpectedErrors' = unexpectedErrors
                      /\ log' = <<Event("command", first.val.id, first.val.name,
                                        Multiple(commandArgs(r.commands)), 0, "")>>
              /\ entries' = ObjectEntries(r.options)
    /\ before' = [parsingErrors |-> pParsingErrors, unexpectedErrors |-> unexpectedErrors,
                   validationErrors |-> validationErrors]
    /\ processedOptions' = <<>>
    /\ k' = 0
    /\ pc' = "options"
    /\ returned' = "none"
    /\ cycles' = cycles + 1
    /\ UNCHANGED <<options, commands, validationErrors, nextId, tokVars>>

\* the entry the option loop is at, and the declaration its key is registered under
Entry   == entries[k + 1]
Current == MapGet(options, Entry.key)

InOptionLoop == pc = "options" /\ k < Len(entries)

\* faulty variant of UnknownOption: an unknown key ends the option loop
UnknownOptionHalts ==
    /\ InOptionLoop /\ ~Current.has
    /\ unexpectedErrors' = Append(unexpectedErrors, Entry.key)
    /\ pc' = "defaults"
    /\ UNCHANGED <<options, commands, pParsingErrors, validationErrors, result, entries, k,
                   processedOptions, returned, log, nextId, cycles, before, tokVars>>

\* parser.ts:321-326, an option key with no registration
UnknownOption ==
    /\ InOptionLoop /\ ~Current.has
    /\ unexpectedErrors' = Append(unexpectedErrors, Entry.key)
    /\ k' = k + 1
    /\ UNCHANGED <<options, commands, pParsingErrors, validationErrors, result, entries,
                   processedOptions, pc, returned, log, nextId, cycles, before, tokVars>>

\* faulty variant of SkipProcessed: the second spelling is reported as an unexpected name
SkipProcessedReports ==
    /\ InOptionLoop /\ Current.has /\ Includes(processedOptions, Current.val.id)
    /\ unexpectedErrors' = Append(unexpectedErrors, Entry.key)
    /\ k' = k + 1
    /\ UNCHANGED <<options, commands, pParsingErrors, validationErrors,
                   result, entries, processedOptions, pc, returned, log, nextId, cycles,
                   before, tokVars>>

\* parser.ts:328, the declaration was already processed in this cycle
SkipProcessed ==
    /\ InOptionLoop /\ Current.has /\ Includes(processedOptions, Current.val.id)
    /\ k' = k + 1
    /\ UNCHANGED <<options, commands, pParsingErrors, unexpectedErrors, validationErrors,
                   result, entries, processedOptions, pc, returned, log, nextId, cycles,
                   before, tokVars>>

\* parser.ts:329-345, the declaration has no validators: its action gets the value
PlainOption ==
    /\ InOptionLoop /\ Current.has /\ ~Includes(processedOptions, Current.val.id)
    /\ ~Current.val.validators.has
    /\ processedOptions' = Append(processedOptions, Current.val.id)
    /\ log' = Append(log, Event("action", Current.val.id, Entry.key, Entry.value, 0, ""))
    /\ k' = k + 1
    /\ UNCHANGED <<options, commands, pParsingErrors, unexpectedErrors, validationErrors,
                   result, entries, pc, returned, nextId, cycles, before, tokVars>>

\* faulty variant of ValidOption: the action gets the value the validators were given
ValidOptionCoerced ==
    /\ InOptionLoop /\ Current.has /\ ~Includes(processedOptions, Current.val.id)
    /\ Current.val.validators.has
    /\ \E outs \in [1..Len(Current.val.validators.val) -> Outcomes] :
          LET rv == runValidators(Current.val.validators.val, outs)
          IN  /\ ~rv.rejected /\ Len(rv.errors) = 0
              /\ log' = log \o ValidateEvents(Current.val, Entry.key, Entry.value, outs, rv.ran)
                            \o <<Event("action", Current.val.id, Entry.key,
                                       ValidatorInput(Entry.value), 0, "")>>
    /\ processedOptions' = Append(processedOptions, Current.val.id)
    /\ k' = k + 1
    /\ UNCHANGED <<options, commands, pParsingErrors, unexpectedErrors, validationErrors,
                   result, entries, pc, returned, nextId, cycles, before, tokVars>>

\* parser.ts:329-345, the validators ran and returned no message: the action gets the value
ValidOption ==
    /\ InOptionLoop /\ Current.has /\ ~Includes(processedOptions, Current.val.id)
    /\ Current.val.validators.has
    /\ \E outs \in [1..Len(Current.val.validators.val) -> Outcomes] :
          LET rv == runValidators(Current.val.validators.val, outs)
          IN  /\ ~rv.rejected /\ Len(rv.errors) = 0
              /\ log' = log \o ValidateEvents(Current.val, Entry.key, Entry.value, outs, rv.ran)
                            \o <<Event("action", Current.val.id, Entry.key, Entry.value, 0, "")>>
    /\ processedOptions' = Append(processedOptions, Current.val.id)
    /\ k' = k + 1
    /\ UNCHANGED <<options, commands, pParsingErrors, unexpectedErrors, validationErrors,
                   result, entries, pc, returned, nextId, cycles, before, tokVars>>

\* faulty variant of InvalidOption: the loop goes on to the next entry
InvalidOptionContinue ==
    /\ InOptionLoop /\ Current.has /\ ~Includes(processedOptions, Current.val.id)
    /\ Current.val.validators.has
    /\ \E outs \in [1..Len(Current.val.validators.val) -> Outcomes] :
          LET rv == runValidators(Current.val.validators.val, outs)
          IN  /\ ~rv.rejected /\ Len(rv.errors) > 0
              /\ log' = log \o ValidateEvents(Current.val, Entry.key, Entry.value, outs, rv.ran)
              /\ validationErrors' = setValidationError(validationErrors, Entry.key, rv.errors)
    /\ processedOptions' = Append(processedOptions, Current.val.id)
    /\ k' = k + 1
    /\ UNCHANGED <<options, commands, pParsingErrors, unexpectedErrors, result, entries, pc,
                   returned, nextId, cycles, before, tokVars>>

\* parser.ts:329-341, the validators returned messages: recorded, and the loop is left
InvalidOption ==
    /\ InOptionLoop /\ Current.has /\ ~Includes(processedOptions, Current.val.id)
    /\ Current.val.validators.has
    /\ \E outs \in [1..Len(Current.val.validators.val) -> Outcomes] :
          LET rv == runValidators(Current.val.validators.val, outs)
          IN  /\ ~rv.rejected /\ Len(rv.errors) > 0
              /\ log' = log \o ValidateEvents(Current.val, Entry.key, Entry.value, outs, rv.ran)
              /\ validationErrors' = setValidationError(validationErrors, Entry.key, rv.errors)
    /\ processedOptions' = Append(processedOptions, Current.val.id)
    /\ pc' = "defaults"
    /\ UNCHANGED <<options, commands, pParsingErrors, unexpectedErrors, result, entries, k,
                   returned, nextId, cycles, before, tokVars>>

\* parser.ts:333 with part_004:18-19, a validator throws or its promise rejects: nothing
\* catches it, and the promise of parse() rejects
RejectedOption ==
    /\ InOptionLoop /\ Current.has /\ ~Includes(processedOptions, Current.val.id)
    /\ Current.val.validators.has
    /\ \E outs \in [1..Len(Current.val.validators.val) -> Outcomes] :
          LET rv == runValidators(Current.val.validators.val, outs)
          IN  /\ rv.rejected
              /\ log' = log \o ValidateEvents(Current.val, Entry.key, Entry.value, outs, rv.ran)
    /\ processedOptions' = Append(processedOptions, Current.val.id)
    /\ pc' = "rejected"
    /\ UNCHANGED <<options, commands, pParsingErrors, unexpectedErrors, validationErrors,
                   result, entries, k, returned, nextId, cycles, before, tokVars>>

\* faulty variant of FinishParse: the default values are skipped after a validation failure
FinishParseUnlessFailed ==
    /\ pc = "defaults" \/ (pc = "options" /\ ~(k < Len(entries)))
    /\ LET r == IF pc = "defaults"
                THEN [processed |-> processedOptions, log |-> log]
                ELSE applyDefaults(MapValues(options), result.options, processedOptions, log)
       IN  /\ processedOptions' = r.processed
           /\ log' = r.log
    /\ returned' = IF hasValidationErrors(validationErrors) THEN "true" ELSE "false"
    /\ pc' = "resolved"
    /\ UNCHANGED <<options, commands, pParsingErrors, unexpectedErrors, validationErrors,
                   result, entries, k, nextId, cycles, before, tokVars>>

\* parser.ts:348-361, after the option loop: the default values, and the resolved value
FinishParse ==
    /\ pc = "defaults" \/ (pc = "options" /\ ~(k < Len(entries)))
    /\ LET r == applyDefaults(MapValues(options), result.options, processedOptions, log)
       IN  /\ processedOptions' = r.processed
           /\ log' = r.log
    /\ returned' = IF hasValidationErrors(validationErrors) THEN "true" ELSE "false"
    /\ pc' = "resolved"
    /\ UNCHANGED <<options, commands, pParsingErrors, unexpectedErrors, validationErrors,
                   result, entries, k, nextId, cycles, before, tokVars>>


----------------------------------------------------------------------------
(* The declarations registered and the tokenize results dispatched *)

Run   == <<"r","u","n">>
Build == <<"b","u","i","l","d">>

KeyA  == <<"a">>
KeyB  == <<"b">>
KeyAA == <<"a","a">>
KeyZZ == <<"z","z">>

\* validators: [{message: 'm1'}, {message: ''}, {message: 'm2'}]
Validators == << [message |-> <<"m","1">>], [message |-> <<>>], [message |-> <<"m","2">>] >>

\* the ArgOptions objects given to Program.option (at least one of short and long)
OptionShapes ==
    { d \in [short : {<<>>, KeyA, KeyB}, long : {<<>>, KeyAA},
             validators : {None, Some(Validators)},
             defaultValue : {None, Some(<<"d">>)}] :
        /\ <<d.short, d.long>> \in {<<KeyA, KeyAA>>, <<KeyB, <<>>>>, <<<<>>, KeyAA>>}
        /\ (d.defaultValue.has => d.validators.has) }

CommandNames == {Run}

\* the values of the options map: true, '', ['v', 'w']
OptionValues == {Flag, Single(<<>>), Multiple(<< <<"v">>, <<"w">> >>)}
OptionKeys   == {KeyA, KeyB, KeyAA, KeyZZ}

\* the options maps with up to n keys, every insertion order, at most one value not true
OptionMaps(n) ==
    { m \in UNION { [1..len -> [key : OptionKeys, value : OptionValues]] : len \in 0..n } :
        \A p, q \in 1..Len(m) :
            p # q => m[p].key # m[q].key /\ (m[p].value = Flag \/ m[q].value = Flag) }

\* what parser.getResult() may give to Program.parse
Results ==
    { r \in [commands : {<<>>, <<Run, Build>>},
             options  : OptionMaps(MaxEntries),
             errors   : {<<>>, << <<"-","-">> >>}] :
        (r.errors = <<>>) <=> (r.commands # <<>>) }

\* the Parser of a Program run: its result is drawn from Results when parse() reads it
TokIdle ==
    /\ args = <<>> /\ i = 0 /\ phase = "done"
    /\ parsedCommands = <<>> /\ parsedOptions = <<>> /\ parsingErrors = <<>> /\ scan = <<>>

\* the field initialisers of Program, parser.ts:242-254
Init == TokIdle /\ ProgIdle

Next ==
    \/ RegisterCommand(CommandNames, MaxCommands)
    \/ RegisterOption(OptionShapes, MaxOptions)
    \/ ParseBegin(Results, MaxCycles)
    \/ UnknownOption
    \/ SkipProcessed
    \/ PlainOption
    \/ ValidOption
    \/ InvalidOption
    \/ RejectedOption
    \/ FinishParse

Spec == Init /\ [][Next]_vars

\* registration-only runs: declarations with every combination of short and long
\* names, and two command names, so that names collide
KeyBB == <<"b","b">>

RegShapes ==
    { d \in [short : {<<>>, KeyA, KeyB}, long : {<<>>, KeyAA, KeyBB},
             validators : {None}, defaultValue : {None}] :
        d.short # <<>> \/ d.long # <<>> }

RegCommandNames == {Run, Build}

NextReg ==
    \/ RegisterCommand(RegCommandNames, MaxRegCommands)
    \/ RegisterOption(RegShapes, MaxRegOptions)

SpecReg == Init /\ [][NextReg]_vars

\* repeated runs: parse() is called more than once on one instance, and the options map
\* has a key made of a digit
Key1 == <<"1">>

\* validators: [{message: 'm1'}, {message: 'm2'}]
TwoValidators == << [message |-> <<"m","1">>], [message |-> <<"m","2">>] >>

RunShapes ==
    { [short |-> Key1, long |-> KeyAA, validators |-> Some(TwoValidators), defaultValue |-> None],
      [short |-> KeyB, long |-> <<>>, validators |-> None, defaultValue |-> None] }

\* the options maps of a repeated run: up to n keys in every insertion order, all true
RunMaps(n) ==
    { m \in UNION { [1..len -> [key : {Key1, KeyAA, KeyB, KeyZZ}, value : {Flag}]] : len \in 0..n } :
        \A p, q \in 1..Len(m) : p # q => m[p].key # m[q].key }

RunResults ==
    [commands : {<<Run>>}, options : RunMaps(MaxRunEntries), errors : {<<>>, << <<"-","-">> >>}]

NextCycles ==
    \/ RegisterOption(RunShapes, MaxRunOptions)
    \/ ParseBegin(RunResults, MaxRunCycles)
    \/ UnknownOption
    \/ SkipProcessed
    \/ PlainOption
    \/ ValidOption
    \/ InvalidOption
    \/ RejectedOption
    \/ FinishParse

SpecCycles == Init /\ [][NextCycles]_vars


----------------------------------------------------------------------------
(* What a parse() cycle did, read from its history *)

\* the declarations reachable from the option registry
RegisteredDecls == { options[p].value : p \in 1..Len(options) }

DeclOf(id) == CHOOSE d \in RegisteredDecls : d.id = id

\* an invocation of an option's action: with a supplied value, or with the default
IsCall(e) == e.ev \in {"action", "default"}

\* a validate call that evaluated to false on a validator with a message
FailingEvent(e) ==
    /\ e.ev = "validate" /\ e.out = "false"
    /\ DeclOf(e.decl).validators.val[e.n].message # <<>>

\* the messages of the failing validators of declaration id, in the order they ran
MessagesIn(id) ==
    LET evs == SelectSeq(log, LAMBDA e : e.decl = id /\ FailingEvent(e))
    IN  [p \in 1..Len(evs) |-> DeclOf(id).validators.val[evs[p].n].message]

\* the running or last cycle recorded a validation failure
Broke == pc \in {"defaults", "resolved"} /\ \E q \in 1..Len(log) : FailingEvent(log[q])

\* the declaration has its short or its long key in the options map of the cycle
Supplied(d) ==
    \/ d.short # <<>> /\ HasKey(result.options, d.short)
    \/ d.long # <<>> /\ HasKey(result.options, d.long)

\* what the cycle appended to unexpectedErrors
Appended ==
    SubSeq(unexpectedErrors, Len(before.unexpectedErrors) + 1, Len(unexpectedErrors))

\* the unregistered keys among the first n entries, in iteration order
UnknownKeys(n) ==
    LET es == SelectSeq(SubSeq(entries, 1, n), LAMBDA e : ~HasKey(options, e.key))
    IN  [p \in 1..Len(es) |-> es[p].key]

\* the cycle's first command is a registered command name
KnownCommand == Len(result.commands) > 0 /\ HasKey(commands, result.commands[1])

\* the position of a key in the entries of the cycle
EntryPos(key) == CHOOSE p \in 1..Len(entries) : entries[p].key = key

\* the declaration the p-th entry resolves to was first met at the p-th entry
FirstOfDecl(p) ==
    /\ HasKey(options, entries[p].key)
    /\ \A q \in 1..(p - 1) :
          HasKey(options, entries[q].key) =>
              Get(options, entries[q].key).id # Get(options, entries[p].key).id

----------------------------------------------------------------------------
(* Claims *)

\* C1: in one parse() cycle the action of one option declaration is invoked at most
\* once, counting the supplied-option loop and the default-value loop together.
C1_ActionAtMostOnce ==
    \A p, q \in 1..Len(log) :
        (p < q /\ IsCall(log[p]) /\ IsCall(log[q])) => log[p].decl # log[q].decl

\* both spellings of one declaration are keys of the options map, and the cycle
\* resolved with one invocation of its action
C1_Witness ==
    /\ pc = "resolved"
    /\ \E d \in RegisteredDecls :
          /\ d.short # <<>> /\ d.long # <<>>
          /\ HasKey(result.options, d.short) /\ HasKey(result.options, d.long)
          /\ MapGet(options, d.short) = Some(d) /\ MapGet(options, d.long) = Some(d)
          /\ Cardinality({q \in 1..Len(log) : IsCall(log[q]) /\ log[q].decl = d.id}) = 1

\* C2: when the validators of a supplied option return at least one message, the
\* messages joined with a newline are stored in validationErrors under the key as it
\* was supplied, nothing else of validationErrors changes, and the option's action is
\* not invoked in the cycle.
C2_FailureRecorded ==
    \A p \in 1..Len(log) :
        (FailingEvent(log[p]) /\ pc # "rejected") =>
            /\ k < Len(entries) /\ entries[k + 1].key = log[p].key
            /\ HasKey(result.options, log[p].key)
            /\ Get(options, log[p].key).id = log[p].decl
            /\ validationErrors =
                   SetProp(before.validationErrors, log[p].key,
                           Join(MessagesIn(log[p].decl), <<"\n">>))
            /\ \A q \in 1..Len(log) : IsCall(log[q]) => log[q].decl # log[p].decl

\* a declaration with short and long name, supplied under its long name, failed two
\* validators: both messages are stored under the long name alone
C2_Witness ==
    /\ pc = "resolved" /\ Broke
    /\ entries[k + 1].key = KeyAA
    /\ Get(options, KeyAA).short = KeyA
    /\ validationErrors = << [key |-> KeyAA, value |-> <<"m","1","\n","m","2">>] >>

\* C3: after option A failed validation no later entry of the options map is processed
\* in the cycle (no validator run, no action, no unexpected error for it), and a cycle
\* adds at most one key to validationErrors.
C3_HardStop ==
    /\ Cardinality({ p \in 1..Len(validationErrors) :
                        ~HasKey(before.validationErrors, validationErrors[p].key) }) <= 1
    /\ \A p \in 1..Len(before.validationErrors) :
          HasKey(validationErrors, before.validationErrors[p].key)
    /\ Broke =>
          /\ k < Len(entries)
          /\ \A q \in 1..Len(log) :
                log[q].ev \in {"validate", "action"} => EntryPos(log[q].key) <= k + 1
          /\ \A p \in (k + 2)..Len(entries) :
                FirstOfDecl(p) =>
                    \A q \in 1..Len(log) : log[q].decl # Get(options, entries[p].key).id
                                            \/ log[q].ev = "command"
          /\ Appended = (IF KnownCommand THEN <<>> ELSE <<Join(result.commands, <<" ">>)>>)
                        \o UnknownKeys(k)

\* option A failed, and after it comes a registered option of another declaration and
\* no event of the cycle is about that declaration
C3_Witness ==
    /\ pc = "resolved" /\ Broke
    /\ k + 2 <= Len(entries)
    /\ FirstOfDecl(k + 2)
    /\ ~Get(options, entries[k + 2].key).defaultValue.has

\* C4: a validation failure does not stop the default-value step: when the cycle has
\* resolved, every registered option with a defaultValue and neither key in the options
\* map has had its action invoked with the default.
C4_DefaultsAfterFailure ==
    (pc = "resolved" /\ Broke) =>
        \A d \in RegisteredDecls :
            (d.defaultValue.has /\ ~Supplied(d)) =>
                \E q \in 1..Len(log) :
                    log[q] = Event("default", d.id, <<>>, Single(d.defaultValue.val), 0, "")

\* option A failed and another, never-supplied option has a default value
C4_Witness ==
    /\ pc = "resolved" /\ Broke
    /\ \E d \in RegisteredDecls :
          /\ d.defaultValue.has /\ ~Supplied(d)
          /\ d.id # Get(options, entries[k + 1].key).id

\* The default-value step of a parse() that resolved: with neither key in the options
\* map, a resolved cycle has invoked its action exactly once, with the default, and has
\* run none of its validators; with either key in the options map its action is never
\* invoked with the default.
C5_DefaultValue ==
    /\ pc = "resolved" =>
          \A d \in RegisteredDecls :
              (d.defaultValue.has /\ ~Supplied(d)) =>
                  /\ Cardinality({q \in 1..Len(log) : log[q].decl = d.id /\ IsCall(log[q])}) = 1
                  /\ \A q \in 1..Len(log) :
                        (log[q].decl = d.id /\ log[q].ev # "command") =>
                            log[q] = Event("default", d.id, <<>>,
                                           Single(d.defaultValue.val), 0, "")
    /\ \A q \in 1..Len(log) :
          log[q].ev = "default" =>
              /\ DeclOf(log[q].decl).defaultValue.has
              /\ ~Supplied(DeclOf(log[q].decl))
              /\ log[q].arg = Single(DeclOf(log[q].decl).defaultValue.val)

\* an option with validators and a default is not supplied and got its default, while
\* another option with a default was supplied with the empty string
C5_Witness ==
    /\ pc = "resolved"
    /\ \E d \in RegisteredDecls :
          /\ d.defaultValue.has /\ d.validators.has /\ ~Supplied(d)
          /\ \E q \in 1..Len(log) : log[q].ev = "default" /\ log[q].decl = d.id
    /\ \E d \in RegisteredDecls :
          /\ d.defaultValue.has /\ Supplied(d)
          /\ \E p \in 1..Len(entries) :
                entries[p].key \in {d.short, d.long} /\ entries[p].value = Single(<<>>)

\* C5, of every dispatch, resolved or not: once parse() has ended, a registered option
\* with a defaultValue and neither key in the options map has had its action invoked
\* with the default exactly once, and none of its validators has run.
C5_DefaultAlways ==
    pc \in {"resolved", "rejected"} =>
        \A d \in RegisteredDecls :
            (d.defaultValue.has /\ ~Supplied(d)) =>
                /\ Cardinality({q \in 1..Len(log) : log[q].decl = d.id /\ IsCall(log[q])}) = 1
                /\ \A q \in 1..Len(log) :
                      (log[q].decl = d.id /\ log[q].ev # "command") =>
                          log[q] = Event("default", d.id, <<>>,
                                         Single(d.defaultValue.val), 0, "")

\* C6: the first entry of commands selects the command: a registered one has its action
\* invoked once, first, with the remaining commands, and adds nothing to
\* unexpectedErrors; otherwise no command action is invoked and the commands joined by
\* a space are appended to unexpectedErrors as one entry.
C6_CommandDispatch ==
    cycles > 0 =>
        LET cmds == result.commands
            calls == {q \in 1..Len(log) : log[q].ev = "command"}
        IN  IF KnownCommand
            THEN /\ calls = {1}
                 /\ log[1] = Event("command", Get(commands, cmds[1]).id, cmds[1],
                                   Multiple(SubSeq(cmds, 2, Len(cmds))), 0, "")
                 /\ \A p \in 1..Len(Appended) : HasKey(result.options, Appended[p])
            ELSE /\ calls = {}
                 /\ Len(Appended) >= 1
                 /\ Appended[1] = Join(cmds, <<" ">>)
                 /\ \A p \in 2..Len(Appended) : HasKey(result.options, Appended[p])

\* the registered command run was dispatched with the remaining command build
C6_Witness ==
    /\ pc = "resolved"
    /\ result.commands = <<Run, Build>>
    /\ Len(log) > 0 /\ log[1].ev = "command" /\ log[1].arg = Multiple(<<Build>>)

\* C7: an option key with no registration is appended to unexpectedErrors and does not
\* halt the loop: every entry before the loop position has been handled, an unknown one
\* by an unexpected error, a registered one by running its declaration's validators and
\* invoking its action; only a validation failure (or a rejecting validator) ends the
\* loop early.
C7_UnknownContinues ==
    /\ cycles > 0 =>
          Appended = (IF KnownCommand THEN <<>> ELSE <<Join(result.commands, <<" ">>)>>)
                     \o UnknownKeys(k)
    /\ (pc = "resolved" /\ ~Broke) => k = Len(entries)
    /\ \A p \in 1..k :
          HasKey(options, entries[p].key) =>
              LET d == Get(options, entries[p].key)
              IN  /\ \E q \in 1..Len(log) : log[q].ev = "action" /\ log[q].decl = d.id
                  /\ d.validators.has =>
                        \A n \in 1..Len(d.validators.val) :
                            \E q \in 1..Len(log) :
                                log[q].ev = "validate" /\ log[q].decl = d.id /\ log[q].n = n

\* an unknown key came first, and the registered option after it was validated and had
\* its action invoked
C7_Witness ==
    /\ pc = "resolved"
    /\ Len(entries) = 2
    /\ ~HasKey(options, entries[1].key)
    /\ Appended[Len(Appended)] = entries[1].key
    /\ HasKey(options, entries[2].key)
    /\ Get(options, entries[2].key).validators.has
    /\ \E q \in 1..Len(log) :
          log[q] = Event("action", Get(options, entries[2].key).id, entries[2].key,
                         entries[2].value, 0, "")

\* C8: parse() resolves to true exactly when validationErrors is non-empty when it
\* returns; parsing errors and unexpected errors alone do not make it true.
C8_ReturnValue ==
    /\ (returned # "none") <=> (pc = "resolved")
    /\ returned # "none" => ((returned = "true") <=> (Len(validationErrors) > 0))

\* a cycle with a parsing error and an unexpected error, and no validation error,
\* resolved to false
C8_Witness ==
    /\ pc = "resolved" /\ returned = "false"
    /\ Len(pParsingErrors) > 0 /\ Len(unexpectedErrors) > 0


\* the number of tokens before the first token that starts with '-'
LeadingBare ==
    CHOOSE n \in 0..Len(args) :
        /\ \A p \in 1..n : ~StartsWith(args[p], Dash)
        /\ n = Len(args) \/ StartsWith(args[n + 1], Dash)

\* C9: commands is exactly the longest prefix of tokens that do not start with '-', in
\* input order; no token at or after the first dash token is recorded as a command, and
\* when no token starts with '-' every token is a command and options and errors are
\* empty.
C9_CommandsPrefix ==
    /\ phase = "commands" => (i <= LeadingBare /\ parsedCommands = SubSeq(args, 1, i))
    /\ phase # "commands" => parsedCommands = SubSeq(args, 1, LeadingBare)
    /\ (phase = "done" /\ LeadingBare = Len(args)) =>
          (parsedCommands = args /\ parsedOptions = <<>> /\ parsingErrors = <<>>)

\* a command, then a dash token, then a bare token that is not recorded as a command
C9_Witness ==
    /\ phase = "done"
    /\ LeadingBare = 1 /\ Len(args) = 3
    /\ ~StartsWith(args[3], Dash)
    /\ parsedCommands = <<args[1]>>

\* a valid long option token without '=', or a single-character short option token
IsGreedy(tok) ==
    \/ /\ StartsWith(tok, <<"-", "-">>)
       /\ \A p \in 1..Len(tok) : tok[p] # "="
       /\ Len(tok) > 3 /\ isValidName(SubSeq(tok, 3, Len(tok)))
    \/ /\ Len(tok) = 2 /\ tok[1] = "-" /\ isValidName(<<tok[2]>>)

\* the number of tokens that do not start with '-' right after the token at 0-based p
RunLen(p) ==
    CHOOSE n \in 0..(Len(args) - p - 1) :
        /\ \A j \in 1..n : ~StartsWith(args[p + 1 + j], Dash)
        /\ p + 1 + n = Len(args) \/ StartsWith(args[p + n + 2], Dash)

\* C10: a valid long option without '=' or a single-character short option takes all
\* the immediately following tokens that do not start with '-' as its value: none gives
\* true, one gives that string, two or more give the ordered sequence; the scan resumes
\* at the first token after them, so every token is classified once and no collected
\* value is an error or an option.
C10_GreedyValues ==
    /\ \A q \in 1..Len(scan) : scan[q].idx = q - 1
    /\ Len(scan) = i
    /\ parsingErrors =
          LET es == SelectSeq(scan, LAMBDA e : e.role = "error")
          IN  [p \in 1..Len(es) |-> args[es[p].idx + 1]]
    /\ \A q \in 1..Len(scan) :
          (scan[q].role = "option" /\ IsGreedy(args[scan[q].idx + 1])) =>
              LET p   == scan[q].idx
                  n   == RunLen(p)
                  tok == args[p + 1]
                  key == IF StartsWith(tok, <<"-", "-">>) THEN SubSeq(tok, 3, Len(tok))
                         ELSE <<tok[2]>>
              IN  /\ i >= p + n + 1
                  /\ \A j \in 1..n : scan[q + j].role = "value"
                  /\ (\A r \in (q + 1)..Len(scan) : scan[r].role # "option") =>
                        /\ HasKey(parsedOptions, key)
                        /\ Get(parsedOptions, key) =
                              IF n = 0 THEN Flag
                              ELSE IF n = 1 THEN Single(args[p + 2])
                              ELSE Multiple(SubSeq(args, p + 2, p + 1 + n))

\* --aa followed by two different bare tokens: both are its value, in order
C10_Witness ==
    /\ phase = "done"
    /\ Len(args) = 3
    /\ args[1] = <<"-","-","a","a">>
    /\ args[2] = <<"a">> /\ args[3] = <<"b">>
    /\ parsedOptions = << [key |-> KeyAA, value |-> Multiple(<< <<"a">>, <<"b">> >>)] >>
    /\ parsingErrors = <<>>


\* the token at the q-th entry of the scan history
TokenAt(q) == args[scan[q].idx + 1]

\* no option token was scanned after the q-th entry of the scan history
LastOption(q) == \A r \in (q + 1)..Len(scan) : scan[r].role # "option"

\* the 1-based place of the first '=' of a token, 0 when it has none
FirstEq(tok) ==
    IF \E n \in 1..Len(tok) : tok[n] = "="
    THEN CHOOSE n \in 1..Len(tok) : tok[n] = "=" /\ \A m \in 1..(n - 1) : tok[m] # "="
    ELSE 0

\* a long option token with '=' whose key part is accepted by the tokenizer
IsLongEq(tok) ==
    /\ StartsWith(tok, <<"-", "-">>)
    /\ FirstEq(tok) > 0
    /\ FirstEq(tok) - 3 > 1 /\ isValidName(SubSeq(tok, 3, FirstEq(tok) - 1))

\* C11: a long option token with '=' and a valid key part is split at the first '=':
\* the value is everything after it as one string (possibly empty, possibly starting
\* with '-' or containing '='), never true, and no following token is consumed.
C11_EqualsValue ==
    \A q \in 1..Len(scan) :
        (scan[q].role = "option" /\ IsLongEq(TokenAt(q))) =>
            LET tok == TokenAt(q)
                n   == FirstEq(tok)
            IN  /\ q < Len(scan) => scan[q + 1].role # "value"
                /\ q = Len(scan) => i = scan[q].idx + 1
                /\ LastOption(q) =>
                      /\ HasKey(parsedOptions, SubSeq(tok, 3, n - 1))
                      /\ Get(parsedOptions, SubSeq(tok, 3, n - 1)) =
                             Single(SubSeq(tok, n + 1, Len(tok)))

\* --aa=-b stored the string -b, --aa=b=a then stored b=a, and the bare token after it
\* was not consumed
C11_Witness ==
    /\ phase = "done"
    /\ args = << <<"-","-","a","a","=","-","b">>, <<"-","-","a","a","=","b","=","a">>, <<"a">> >>
    /\ parsedOptions = << [key |-> KeyAA, value |-> Single(<<"b","=","a">>)] >>
    /\ parsingErrors = << <<"a">> >>

\* a short token with more than one valid flag character
IsCombined(tok) ==
    /\ Len(tok) > 2 /\ tok[1] = "-" /\ tok[2] # "-"
    /\ isValidName(SubSeq(tok, 2, Len(tok)))

\* the number of entries right after the q-th entry of the scan history that are values
RECURSIVE ValuesAfter(_)
ValuesAfter(q) ==
    IF q < Len(scan) /\ scan[q + 1].role = "value" THEN 1 + ValuesAfter(q + 1) ELSE 0

Malformed(tok) ==
    \/ tok = <<"-", "-">>
    \/ tok = <<"-">>
    \/ StartsWith(tok, <<"-", "-", "-">>)
    \/ /\ StartsWith(tok, <<"-", "-">>)
       /\ LET stop == IF FirstEq(tok) > 0 THEN FirstEq(tok) - 1 ELSE Len(tok)
              key  == SubSeq(tok, 3, stop)
          IN  Len(key) < 2 \/ ~isValidName(key)
    \/ /\ StartsWith(tok, Dash) /\ ~StartsWith(tok, <<"-", "-">>)
       /\ ~isValidName(SubSeq(tok, 2, Len(tok)))

\* the tokens classified as errors, in scan order
ScannedErrors ==
    LET es == SelectSeq(scan, LAMBDA e : e.role = "error")
    IN  [p \in 1..Len(es) |-> args[es[p].idx + 1]]

\* C13: a malformed dash token is appended to errors verbatim, as the entire original
\* argument, assigns no option key and consumes no following token: the scan goes on
\* at the very next token.
C13_MalformedVerbatim ==
    /\ [](\A q \in 1..Len(scan) : Malformed(TokenAt(q)) => scan[q].role = "error")
    /\ [][ (phase = "options" /\ i < Len(args) /\ Malformed(args[i + 1])) =>
              /\ parsingErrors' = Append(parsingErrors, args[i + 1])
              /\ parsedOptions' = parsedOptions
              /\ parsedCommands' = parsedCommands
              /\ i' = i + 1 ]_vars

\* -, then --a*=b, then a bare token: all three are errors, whole, and no key is set
C13_Witness ==
    /\ phase = "done"
    /\ args = << <<"-">>, <<"-","-","a","*","=","b">>, <<"a">> >>
    /\ parsingErrors = args
    /\ parsedOptions = <<>> /\ parsedCommands = <<>>

\* C14: a bare token reached in the option phase is appended to errors; a bare token
\* right after a --key=value token or a malformed dash token is reached there, so it
\* is neither a command nor the value of an option.
C14_BareToErrors ==
    /\ [](/\ parsingErrors = ScannedErrors
          /\ \A q \in 2..Len(scan) :
                (/\ ~StartsWith(TokenAt(q), Dash)
                 /\ IsLongEq(TokenAt(q - 1)) \/ Malformed(TokenAt(q - 1))) =>
                    scan[q].role = "error")
    /\ [][ (phase = "options" /\ i < Len(args) /\ ~StartsWith(args[i + 1], Dash)) =>
              /\ parsingErrors' = Append(parsingErrors, args[i + 1])
              /\ parsedOptions' = parsedOptions
              /\ parsedCommands' = parsedCommands
              /\ i' = i + 1 ]_vars

\* a command, then --aa=, then a bare token: the bare token is an error, not a second
\* command and not the value of aa
C14_Witness ==
    /\ phase = "done"
    /\ args = << <<"a">>, <<"-","-","a","a","=">>, <<"b">> >>
    /\ parsedCommands = << <<"a">> >>
    /\ parsedOptions = << [key |-> KeyAA, value |-> Single(<<>>)] >>
    /\ parsingErrors = << <<"b">> >>

\* the value made of the tokens scanned as values right after the q-th scan entry
CollectedAt(q) ==
    LET n == ValuesAfter(q)
    IN  IF n = 0 THEN Flag
        ELSE IF n = 1 THEN Single(TokenAt(q + 1))
        ELSE Multiple([j \in 1..n |-> TokenAt(q + j)])

\* the assignments one scanned option token stands for, in order
AssignsOf(q) ==
    LET tok == TokenAt(q)
        n   == FirstEq(tok)
    IN  IF StartsWith(tok, <<"-", "-">>)
        THEN IF n > 0
             THEN << [key |-> SubSeq(tok, 3, n - 1), value |-> Single(SubSeq(tok, n + 1, Len(tok)))] >>
             ELSE << [key |-> SubSeq(tok, 3, Len(tok)), value |-> CollectedAt(q)] >>
        ELSE [c \in 1..(Len(tok) - 2) |-> [key |-> <<tok[c + 1]>>, value |-> Flag]]
             \o << [key |-> <<tok[Len(tok)]>>, value |-> CollectedAt(q)] >>

\* the assignments of the first q scan entries, in order
RECURSIVE AssignsUpTo(_)
AssignsUpTo(q) ==
    IF q = 0 THEN <<>>
    ELSE AssignsUpTo(q - 1) \o (IF scan[q].role = "option" THEN AssignsOf(q) ELSE <<>>)

\* C15: when a key is assigned more than once in one argument list, the stored value
\* is the one of the last assignment; an earlier value is neither merged nor kept, and
\* the key is stored once.
C15_LastWins ==
    LET assigned == AssignsUpTo(Len(scan))
    IN  /\ \A p \in 1..Len(assigned) :
              (\A r \in (p + 1)..Len(assigned) : assigned[r].key # assigned[p].key) =>
                  /\ HasKey(parsedOptions, assigned[p].key)
                  /\ Get(parsedOptions, assigned[p].key) = assigned[p].value
        /\ \A p \in 1..Len(parsedOptions) :
              /\ \E r \in 1..Len(assigned) : assigned[r].key = parsedOptions[p].key
              /\ \A r \in 1..Len(parsedOptions) :
                    parsedOptions[r].key = parsedOptions[p].key => r = p

\* -a b stored the string b; -aa then assigned true to a twice: true is what is stored
C15_Witness ==
    /\ phase = "done"
    /\ args = << <<"-","a">>, <<"b">>, <<"-","a","a">> >>
    /\ parsedOptions = << [key |-> KeyA, value |-> Flag] >>

\* C16: every value stored in the options map is boolean true, one string, or an
\* ordered sequence of at least two strings; never an array of length zero or one, and
\* never boolean false.
C16_ValueShapes ==
    \A p \in 1..Len(parsedOptions) :
        LET v == parsedOptions[p].value
        IN  \/ v.kind = "flag" /\ v.val = <<>>
            \/ v.kind = "single" /\ Len(v.val) = 1
            \/ /\ v.kind = "multiple" /\ Len(v.val) >= 2
               /\ \A j \in 1..Len(v.val) : ~StartsWith(v.val[j], Dash)

\* one argument list stored boolean true under one key and a sequence of two strings
\* under another
C16_Witness ==
    /\ phase = "done"
    /\ \E p, r \in 1..Len(parsedOptions) :
          /\ parsedOptions[p].value = Flag
          /\ parsedOptions[r].value.kind = "multiple" /\ Len(parsedOptions[r].value.val) = 2

\* C17: a supplied option fails whenever one of its validators evaluates to a falsy
\* result, whether or not that validator has a message: its action is not invoked in
\* the cycle and the option loop stops at it.
C17_FalsyFails ==
    \A p \in 1..Len(log) :
        (log[p].ev = "validate" /\ log[p].out = "false" /\ pc # "rejected") =>
            /\ \A q \in 1..Len(log) : log[q].ev = "action" => log[q].decl # log[p].decl
            /\ pc # "options"
            /\ k < Len(entries) /\ entries[k + 1].key = log[p].key

\* C18: dispatch completes and returns a boolean: a rejecting (or throwing) validator
\* does not make parse() reject; the option is recorded in validationErrors as failed
\* and the default-value step still runs.
C18_RejectionRecorded ==
    /\ pc # "rejected"
    /\ \A p \in 1..Len(log) :
          (log[p].ev = "validate" /\ log[p].out = "reject" /\ pc = "resolved") =>
              /\ HasKey(validationErrors, log[p].key)
              /\ returned = "true"
              /\ \A d \in RegisteredDecls :
                    (d.defaultValue.has /\ ~Supplied(d)) =>
                        \E q \in 1..Len(log) : log[q].ev = "default" /\ log[q].decl = d.id

\* the command declarations reachable from the command registry
RegisteredCommands == { commands[p].value : p \in 1..Len(commands) }

\* C19: a registration whose name collides with an existing one raises no error and
\* replaces the mapping of the colliding key only: every key of the new declaration
\* resolves to it, every other key resolves to what it resolved to before (so the
\* other key of a displaced declaration keeps resolving to that declaration), and a
\* command registered under an existing name replaces that command.
C19_CollisionReplaces ==
    [][ /\ nextId'.option # nextId.option =>
              /\ commands' = commands
              /\ \E p \in 1..Len(options') :
                    LET d == options'[p].value
                    IN  /\ d.id = nextId.option
                        /\ \A key \in {KeyA, KeyB, KeyAA, KeyBB, KeyZZ} :
                              MapGet(options', key) =
                                  IF key \in {d.short, d.long} THEN Some(d)
                                  ELSE MapGet(options, key)
        /\ nextId'.command # nextId.command =>
              /\ options' = options
              /\ \E p \in 1..Len(commands') :
                    LET c == commands'[p].value
                    IN  /\ c.id = nextId.command
                        /\ \A name \in {Run, Build} :
                              MapGet(commands', name) =
                                  IF name = c.name THEN Some(c) ELSE MapGet(commands, name)
      ]_vars

\* a later declaration took the short name a of an earlier one, whose long name aa still
\* resolves to it, and the command run was registered twice: the second one is kept
C19_Witness ==
    /\ \E d1, d2 \in RegisteredDecls :
          /\ d1.id < d2.id
          /\ d1.short = KeyA /\ d1.long = KeyAA /\ d2.short = KeyA
          /\ MapGet(options, KeyA) = Some(d2)
          /\ MapGet(options, KeyAA) = Some(d1)
    /\ nextId.command = 3
    /\ commands = << [key |-> Run, value |-> [id |-> 2, name |-> Run]] >>

\* C20: getRegisteredOptions() lists every declaration reachable from the option
\* registry exactly once, getRegisteredCommands() lists every command of the command
\* registry, and both lists are in registration order.
C20_RegistrationOrder ==
    /\ \A d \in RegisteredDecls :
          Cardinality({p \in 1..Len(getRegisteredOptions) : getRegisteredOptions[p] = d}) = 1
    /\ \A p \in 1..Len(getRegisteredOptions) : getRegisteredOptions[p] \in RegisteredDecls
    /\ \A p, q \in 1..Len(getRegisteredOptions) :
          p < q => getRegisteredOptions[p].id < getRegisteredOptions[q].id
    /\ \A c \in RegisteredCommands :
          Cardinality({p \in 1..Len(getRegisteredCommands) : getRegisteredCommands[p] = c}) = 1
    /\ \A p \in 1..Len(getRegisteredCommands) : getRegisteredCommands[p] \in RegisteredCommands
    /\ \A p, q \in 1..Len(getRegisteredCommands) :
          p < q => getRegisteredCommands[p].id < getRegisteredCommands[q].id

\* a is b with entries added at the end
IsPrefix(a, b) == Len(a) <= Len(b) /\ SubSeq(b, 1, Len(a)) = a

\* C21: dispatch never resets the three error collections: every parse() call appends
\* the tokenizer's errors to parsingErrors and the unknown names it meets to
\* unexpectedErrors, after what the earlier calls left there, no step removes an entry
\* of the two lists, and no step removes a key of validationErrors.
C21_Accumulates ==
    /\ [](cycles > 0 =>
            /\ pParsingErrors = before.parsingErrors \o result.errors
            /\ unexpectedErrors =
                  before.unexpectedErrors
                  \o (IF KnownCommand THEN <<>> ELSE <<Join(result.commands, <<" ">>)>>)
                  \o UnknownKeys(k)
            /\ \A p \in 1..Len(before.validationErrors) :
                  HasKey(validationErrors, before.validationErrors[p].key))
    /\ [][ /\ IsPrefix(pParsingErrors, pParsingErrors')
           /\ IsPrefix(unexpectedErrors, unexpectedErrors')
           /\ \A p \in 1..Len(validationErrors) :
                 HasKey(validationErrors', validationErrors[p].key)
           /\ cycles' # cycles =>
                 /\ before'.parsingErrors = pParsingErrors
                 /\ before'.unexpectedErrors = unexpectedErrors
                 /\ before'.validationErrors = validationErrors ]_vars

\* the second parse() call resolved, and each list holds what the first call left there
\* followed by the entries of the second call
C21_Witness ==
    /\ cycles = 2 /\ pc = "resolved"
    /\ pParsingErrors = << <<"-","-">>, <<"-","-">> >>
    /\ unexpectedErrors = << Run, KeyZZ, Run, KeyZZ >>
    /\ before.unexpectedErrors = << Run, KeyZZ >>
    /\ Len(validationErrors) = 1

\* C22: a parse() call adds an entry to unexpectedErrors only for a name of the tokenize
\* result that has no registration: one entry for the commands when there is at least
\* one command and the first is not registered, one entry for every unregistered option
\* key met, and no entry for the commands when the commands sequence is empty.
C22_OnlyUnresolvedNames ==
    cycles > 0 =>
        Appended =
            (IF result.commands # <<>> /\ ~KnownCommand
             THEN <<Join(result.commands, <<" ">>)>> ELSE <<>>)
            \o UnknownKeys(k)

\* the position of a key in the options map of the cycle, in the order it was populated
PopulatedPos(key) == CHOOSE p \in 1..Len(result.options) : result.options[p].key = key

\* C23: the pairs of the options map are processed in the order in which the keys were
\* populated, whatever the valid key names (names made of digits included): the pairs
\* are iterated in that order, and when a validation failure is recorded for a key,
\* every registered key populated before it has had its declaration's action invoked.
C23_PopulationOrder ==
    cycles > 0 =>
        /\ \A p, q \in 1..Len(entries) :
              p < q => PopulatedPos(entries[p].key) < PopulatedPos(entries[q].key)
        /\ \A f \in 1..Len(log) :
              FailingEvent(log[f]) /\ pc \in {"defaults", "resolved"} =>
                  \A p \in 1..(PopulatedPos(log[f].key) - 1) :
                      HasKey(options, result.options[p].key) =>
                          \E q \in 1..Len(log) :
                              /\ log[q].ev = "action"
                              /\ log[q].decl = Get(options, result.options[p].key).id

\* C27: every key of the tokenizer's options map is a valid option name under the name
\* grammar, either one character or the key part, of length at least 2, of a long
\* token, and no key that is only a hyphen or only an underscore is stored.
C27_KeysAreNames ==
    \A p \in 1..Len(parsedOptions) :
        /\ isValidName(parsedOptions[p].key)
        /\ parsedOptions[p].key \notin {<<"-">>, <<"_">>}

\* the validate calls of the cycle made for an option key
ValidateCallsOf(key) == SelectSeq(log, LAMBDA e : e.ev = "validate" /\ e.key = key)

ValidatedKeys == { log[q].key : q \in { r \in 1..Len(log) : log[r].ev = "validate" } }

\* C25: for one option every declared validator is evaluated, one at a time in declared
\* order, with no short-circuit; the messages collected are those of the failing
\* validators with a non-empty message, in declared order.
C25_AllValidatorsRun ==
    \A key \in ValidatedKeys :
        LET calls == ValidateCallsOf(key)
            decl  == Get(options, key)
        IN  /\ Len(calls) = Len(decl.validators.val)
            /\ \A n \in 1..Len(calls) : calls[n].n = n
            /\ HasKey(validationErrors, key) =>
                  Get(validationErrors, key) = Join(MessagesIn(decl.id), <<"\n">>)

\* C26: the steps of one parse() cycle come in a fixed order: the command's action, when
\* the command is registered, is invoked before any validator runs and before any option
\* action; every supplied-option action is invoked before any default-value action;
\* and no later step, a validation failure included, removes or prevents the command's
\* action.
C26_StepOrder ==
    /\ [](cycles > 0 =>
            /\ \A q \in 1..Len(log) : (log[q].ev = "command") <=> (q = 1 /\ KnownCommand)
            /\ \A p, q \in 1..Len(log) :
                  log[p].ev = "default" /\ log[q].ev \in {"command", "validate", "action"}
                      => q < p)
    /\ [][cycles' = cycles => IsPrefix(log, log')]_vars

\* a cycle with a registered command, a supplied option that failed validation, and a
\* default-value action: the command's action is the first step and stays recorded
C26_Witness ==
    /\ pc = "resolved" /\ returned = "true"
    /\ Len(log) >= 3
    /\ log[1].ev = "command"
    /\ \E q \in 1..Len(log) : FailingEvent(log[q])
    /\ log[Len(log)].ev = "default"

\* the option token that collected the value at the q-th entry of the scan history
RECURSIVE OwnerOf(_)
OwnerOf(q) == IF q > 1 /\ scan[q - 1].role = "value" THEN OwnerOf(q - 1) ELSE q - 1

\* the rank of the phases of Parser.parse
PhaseRank(ph) == CASE ph = "commands" -> 0 [] ph = "options" -> 1 [] ph = "done" -> 2

\* C28: tokenization ends for every argument list and never raises: every token after
\* the first two argv entries is classified exactly once, in input order, as a command,
\* an accepted option token, a value collected by the option token right before its run
\* of bare tokens, or an error; the scan index never moves backwards and every step
\* moves the index or the phase forward, until every token is classified.
C28_ScanOnce ==
    /\ [](/\ Len(scan) = i /\ i <= Len(args)
          /\ \A q \in 1..Len(scan) :
                /\ scan[q].idx = q - 1
                /\ scan[q].role = "command" => q <= LeadingBare
                /\ scan[q].role = "option" =>
                      StartsWith(TokenAt(q), Dash) /\ ~Malformed(TokenAt(q))
                /\ scan[q].role = "value" =>
                      /\ ~StartsWith(TokenAt(q), Dash)
                      /\ OwnerOf(q) >= 1
                      /\ scan[OwnerOf(q)].role = "option"
                      /\ FirstEq(TokenAt(OwnerOf(q))) = 0
                /\ scan[q].role = "error" =>
                      Malformed(TokenAt(q)) \/ ~StartsWith(TokenAt(q), Dash)
          /\ phase = "done" => i = Len(args)
          /\ phase # "done" => ENABLED NextTok)
    /\ [][ /\ i' >= i
           /\ PhaseRank(phase') >= PhaseRank(phase)
           /\ i' > i \/ PhaseRank(phase') > PhaseRank(phase)
           /\ SubSeq(scan', 1, Len(scan)) = scan ]_vars

\* a finished scan of three tokens: an option token, the value it collected, and a
\* malformed token
C28_Witness ==
    /\ phase = "done" /\ Len(args) = 3
    /\ scan = << [idx |-> 0, role |-> "option"], [idx |-> 1, role |-> "value"],
                 [idx |-> 2, role |-> "error"] >>

\* C29: the validation outcome is sticky on one instance: after a parse() call that
\* returned true, every later parse() call returns true as well, whatever tokenize
\* result it is given. (validationErrors is empty at construction and only a failing
\* option adds a key, so an earlier call returned true exactly when the call at hand
\* started with a key in validationErrors.)
C29_StickyOutcome ==
    (pc \in {"resolved", "rejected"} /\ Len(before.validationErrors) > 0) => returned = "true"

\* C30: when both spellings of one declaration are keys of the options map with
\* different values, only the pair that comes first in iteration order is used: its
\* value alone is validated and passed to the action, and the pair under the second
\* spelling is neither validated, nor passed to any action, nor reported in any error
\* collection.
C30_FirstSpellingOnly ==
    \A p, q \in 1..Len(entries) :
        ( /\ p < q /\ FirstOfDecl(p)
          /\ HasKey(options, entries[q].key)
          /\ Get(options, entries[q].key).id = Get(options, entries[p].key).id
          /\ entries[p].value # entries[q].value )
        => /\ \A e \in 1..Len(log) :
                 log[e].ev \in {"validate", "action", "default"}
                 /\ log[e].decl = Get(options, entries[p].key).id
                 => /\ log[e].key = entries[p].key
                    /\ log[e].ev = "validate" => log[e].arg = ValidatorInput(entries[p].value)
                    /\ log[e].ev = "action" => log[e].arg = entries[p].value
           /\ HasKey(validationErrors, entries[q].key)
                 => HasKey(before.validationErrors, entries[q].key)
           /\ \A n \in 1..Len(Appended) : Appended[n] # entries[q].key
           /\ pParsingErrors = before.parsingErrors \o result.errors

\* both spellings of one declaration were met with different values: the action got
\* the value of the first and the second was passed by
C30_Witness ==
    /\ Len(entries) = 2 /\ k = 2
    /\ HasKey(options, entries[1].key) /\ HasKey(options, entries[2].key)
    /\ Get(options, entries[1].key).id = Get(options, entries[2].key).id
    /\ entries[1].value # Flag /\ entries[2].value = Flag
    /\ \E e \in 1..Len(log) :
          /\ log[e].ev = "action" /\ log[e].key = entries[1].key
          /\ log[e].arg = entries[1].value

====
